---- MODULE Spec2Model ----
(***************************************************************************)
(* Model of the useAudioRecorder hook (src/src/hooks/useAudioRecorder.ts). *)
(*                                                                         *)
(* The hook keeps four pieces of React state.  Its callbacks are closures  *)
(* created by a render: they read the state values of that render, and     *)
(* their setState calls are queued and applied by the next render.  The    *)
(* interval timers live in the runtime's timer table, outside React.       *)
(***************************************************************************)
EXTENDS Integers, Sequences, FiniteSets, TLC

\* ---- bounds of the model ----
MaxStarts == 2      \* setInterval / captureAudio invocations explored
MaxTime == 2        \* seconds a recording is followed, and largest recordingTime that still ticks
MaxBatch == 2       \* start()/stop() calls made in one task, before React renders

\* ---- values ----
None == 0                          \* the undefined timer handle
NotRecording == -1                 \* no recording in progress
Undefined == [type |-> "undefined", bytes |-> <<>>]   \* recordingBlob unset
FileContents == {<<7>>, <<255, 0>>}            \* bytes of a capture file
\* the file lists a provider may hand to the success callback (at least one file)
Files == {<<a>> : a \in FileContents} \cup {<< <<7>>, <<255, 0>> >>}
Errors == {[code |-> 3, message |-> "canceled"],
           [code |-> 20, message |-> "not supported"]}

VARIABLES
  isRecording,     \* useState(false), committed value
  recordingTime,   \* useState(0), committed value
  timerInterval,   \* useState<Timeout>(), committed value
  recordingBlob,   \* useState<Blob>(), committed value
  pending,         \* setState calls queued since the last render
  timers,          \* handles of the intervals that are live in the runtime
  nextHandle,      \* the handle the next setInterval returns
  captures,        \* one record per captureAudio invocation; file: the bytes being read
  mounted,         \* the owning component is mounted
  hasHandler,      \* onNotAllowedOrFound was supplied
  handlerCalls,    \* the errors onNotAllowedOrFound received, in order
  console,         \* the lines written by console.log
  providerErrors,  \* the errors the provider reported, in order
  elapsed,         \* seconds since the recording in progress started; NotRecording after stop()/success
  batch,           \* start()/stop() calls made in the running task
  stopCalled,      \* "never"; "idle": stop() was only called while isRecording was false; "recording"
  lastSuccess,     \* <<file>> of the success callback that ran last, <<>> before the first
  lastRead         \* <<file>> of the onloadend that ran last, <<>> before the first

vars == <<isRecording, recordingTime, timerInterval, recordingBlob, pending,
          timers, nextHandle, captures, mounted, hasHandler, handlerCalls,
          console, providerErrors, elapsed, batch, stopCalled, lastSuccess,
          lastRead>>

session == <<isRecording, recordingTime, timerInterval, recordingBlob>>

\* ---- React state updates ----
SetIsRecording(v) == [k |-> "isRecording", v |-> v]
SetRecordingTime(v) == [k |-> "time", v |-> v]
IncRecordingTime == [k |-> "timeInc", v |-> 1]     \* (time) => time + 1
SetTimerInterval(h) == [k |-> "timer", v |-> h]
SetRecordingBlob(b) == [k |-> "blob", v |-> b]

\* a setState call on an unmounted component is dropped
Enqueue(q, us) == IF mounted THEN q \o us ELSE q

ApplyUpdate(s, u) ==
  CASE u.k = "isRecording" -> [s EXCEPT !.isRecording = u.v]
    [] u.k = "time"        -> [s EXCEPT !.recordingTime = u.v]
    [] u.k = "timeInc"     -> [s EXCEPT !.recordingTime = @ + u.v]
    [] u.k = "timer"       -> [s EXCEPT !.timerInterval = u.v]
    [] u.k = "blob"        -> [s EXCEPT !.recordingBlob = u.v]

RECURSIVE ApplyAll(_, _)
ApplyAll(s, q) ==
  IF q = <<>> THEN s ELSE ApplyAll(ApplyUpdate(s, Head(q)), Tail(q))

\* ---- _startTimer / _stopTimer ----
\* the updates _startTimer queues for the handle setInterval returned
StartTimerUpdates(h) == <<SetTimerInterval(h)>>

\* the timer table after _stopTimer ran in a closure that saw timerInterval = ti
StopTimerLive(ti, live) == IF ti # None THEN live \ {ti} ELSE live

\* a _stopTimer that clears the interval but keeps the stored handle
StopTimerUpdates_keepHandle == <<>>

StopTimerUpdates == <<SetTimerInterval(None)>>

\* ---- the blob built by reader.onloadend ----
\* a conversion through signed bytes (Int8Array)
ToUint8Array_signed(buf) ==
  [i \in DOMAIN buf |-> IF (buf[i] % 256) >= 128 THEN (buf[i] % 256) - 256 ELSE buf[i] % 256]

ToUint8Array(buf) == [i \in DOMAIN buf |-> buf[i] % 256]
MakeBlob(buf) == [type |-> "audio/wav", bytes |-> ToUint8Array(buf)]

Init ==
  /\ isRecording = FALSE
  /\ recordingTime = 0
  /\ timerInterval = None
  /\ recordingBlob = Undefined
  /\ pending = <<>>
  /\ timers = {}
  /\ nextHandle = 1
  /\ captures = <<>>
  /\ mounted = TRUE
  /\ hasHandler \in BOOLEAN
  /\ handlerCalls = <<>>
  /\ console = <<>>
  /\ providerErrors = <<>>
  /\ elapsed = NotRecording
  /\ batch = 0
  /\ stopCalled = "never"
  /\ lastSuccess = <<>>
  /\ lastRead = <<>>

\* the state React renders from the current state and the queued updates q
RenderedState(q) ==
  ApplyAll([isRecording |-> isRecording, recordingTime |-> recordingTime,
            timerInterval |-> timerInterval, recordingBlob |-> recordingBlob], q)

\* React renders: the queued updates are applied in order and the callbacks
\* are re-created over the new values.
Render ==
  /\ pending # <<>>
  /\ LET s == RenderedState(pending)
     IN /\ isRecording' = s.isRecording
        /\ recordingTime' = s.recordingTime
        /\ timerInterval' = s.timerInterval
        /\ recordingBlob' = s.recordingBlob
  /\ pending' = <<>>
  /\ batch' = 0
  /\ UNCHANGED <<timers, nextHandle, captures, mounted, hasHandler,
                 handlerCalls, console, providerErrors, elapsed,
                 stopCalled, lastSuccess, lastRead>>

\* startRecording of the last render
StartRecording ==
  /\ mounted
  /\ batch < MaxBatch
  /\ batch' = batch + 1
  /\ IF timerInterval # None
     THEN UNCHANGED <<pending, timers, nextHandle, captures, elapsed>>
     ELSE /\ nextHandle <= MaxStarts
          /\ captures' = Append(captures, [state |-> "inflight",
                                           closTimer |-> timerInterval,
                                           file |-> <<>>])
          /\ timers' = timers \cup {nextHandle}
          /\ nextHandle' = nextHandle + 1
          /\ pending' = Enqueue(pending, <<SetIsRecording(TRUE)>>
                                         \o StartTimerUpdates(nextHandle))
          /\ elapsed' = 0
  /\ UNCHANGED <<session, mounted, hasHandler, handlerCalls, console,
                 providerErrors,
                 stopCalled, lastSuccess, lastRead>>

\* a stopRecording that also clears the blob
StopUpdates_clearBlob ==
  StopTimerUpdates \o <<SetRecordingTime(0), SetIsRecording(FALSE),
                        SetRecordingBlob(Undefined)>>

\* stopRecording of the last render
StopUpdates == StopTimerUpdates \o <<SetRecordingTime(0), SetIsRecording(FALSE)>>

StopRecording ==
  /\ mounted
  /\ batch < MaxBatch
  /\ batch' = batch + 1
  /\ timers' = StopTimerLive(timerInterval, timers)
  /\ pending' = Enqueue(pending, StopUpdates)
  /\ stopCalled' = IF isRecording \/ stopCalled = "recording"
                   THEN "recording" ELSE "idle"
  /\ elapsed' = NotRecording
  /\ UNCHANGED <<session, nextHandle, captures, mounted, hasHandler,
                 handlerCalls, console, providerErrors,
                 lastSuccess, lastRead>>

\* 1000ms pass: every live interval fires once
RECURSIVE TickUpdates(_)
TickUpdates(n) == IF n = 0 THEN <<>> ELSE <<IncRecordingTime>> \o TickUpdates(n - 1)

Tick ==
  /\ pending = <<>>
  /\ recordingTime < MaxTime
  /\ elapsed = NotRecording \/ elapsed < MaxTime
  /\ elapsed' = IF elapsed = NotRecording THEN NotRecording ELSE elapsed + 1
  /\ pending' = Enqueue(pending, TickUpdates(Cardinality(timers)))
  /\ batch' = 0
  /\ UNCHANGED <<session, timers, nextHandle, captures, mounted, hasHandler,
                 handlerCalls, console, providerErrors,
                 stopCalled, lastSuccess, lastRead>>

\* a success callback that stores the blob at once, before the file is read
SuccessUpdates_blobEarly(c) ==
  <<SetIsRecording(FALSE), SetRecordingBlob(MakeBlob(<<>>))>>
    \o StopTimerUpdates \o <<SetRecordingTime(0)>>

\* the success callback of capture c, called with the provider's files
SuccessUpdates(c) ==
  <<SetIsRecording(FALSE)>> \o StopTimerUpdates \o <<SetRecordingTime(0)>>

\* files[0]
FirstFile(files) == files[1]

ProviderSuccess(c, files) ==
  /\ pending = <<>>
  /\ captures[c].state = "inflight"
  /\ captures' = [captures EXCEPT ![c].state = "reading",
                                  ![c].file = FirstFile(files)]
  /\ timers' = StopTimerLive(captures[c].closTimer, timers)
  /\ pending' = Enqueue(pending, SuccessUpdates(c))
  /\ lastSuccess' = <<FirstFile(files)>>
  /\ batch' = 0
  /\ elapsed' = NotRecording
  /\ UNCHANGED <<session, nextHandle, mounted, hasHandler, handlerCalls,
                 console, providerErrors,
                 stopCalled, lastRead>>

\* an onloadend that keeps a blob that is already stored
ReadDoneUpdates_keepFirst(c) ==
  IF recordingBlob = Undefined
  THEN <<SetRecordingBlob(MakeBlob(captures[c].file))>> ELSE <<>>

\* an onloadend that drops the blob of a recording that is no longer shown
ReadDoneUpdates_dropIfStopped(c) ==
  IF isRecording THEN <<SetRecordingBlob(MakeBlob(captures[c].file))>> ELSE <<>>

\* reader.onloadend of capture c
ReadDoneUpdates(c) == <<SetRecordingBlob(MakeBlob(captures[c].file))>>

ReadDone(c) ==
  /\ pending = <<>>
  /\ captures[c].state = "reading"
  /\ captures' = [captures EXCEPT ![c].state = "done", ![c].file = <<>>]
  /\ pending' = Enqueue(pending, ReadDoneUpdates(c))
  /\ lastRead' = <<captures[c].file>>
  /\ batch' = 0
  /\ UNCHANGED <<session, timers, nextHandle, mounted, hasHandler,
                 handlerCalls, console, providerErrors, elapsed,
                 stopCalled, lastSuccess>>

\* fetch(path) rejects: nothing handles the rejection, onloadend never runs
FetchRejected(c) ==
  /\ pending = <<>>
  /\ captures[c].state = "reading"
  /\ captures' = [captures EXCEPT ![c].state = "readFailed", ![c].file = <<>>]
  /\ batch' = 0
  /\ UNCHANGED <<session, pending, timers, nextHandle, mounted, hasHandler,
                 handlerCalls, console, providerErrors, elapsed,
                 stopCalled, lastSuccess, lastRead>>

\* an error callback that reports the error twice
ErrorCallbackCalls_twice(err) == IF hasHandler THEN <<err, err>> ELSE <<>>

\* the error callback of capture c, called with the provider's error:
\* the calls it makes of onNotAllowedOrFound
ErrorCallbackCalls(err) == IF hasHandler THEN <<err>> ELSE <<>>

\* an error callback that ends the recording state
ErrorCallbackUpdates_reset == <<SetIsRecording(FALSE)>>

\* the setState calls of the error callback: none
ErrorCallbackUpdates == <<>>

ProviderFailure(c, err) ==
  /\ pending = <<>>
  /\ captures[c].state = "inflight"
  /\ captures' = [captures EXCEPT ![c].state = "failed"]
  /\ providerErrors' = Append(providerErrors, err)
  /\ console' = Append(console, err.message)
  /\ handlerCalls' = handlerCalls \o ErrorCallbackCalls(err)
  /\ pending' = Enqueue(pending, ErrorCallbackUpdates)
  /\ timers' = timers
  /\ batch' = 0
  /\ UNCHANGED <<session, nextHandle, mounted, hasHandler, elapsed,
                 stopCalled, lastSuccess, lastRead>>

\* the owning component unmounts: the hook registers no cleanup
UnmountLive(live) == live

Unmount ==
  /\ mounted
  /\ mounted' = FALSE
  /\ pending' = <<>>
  /\ timers' = UnmountLive(timers)
  /\ batch' = 0
  /\ UNCHANGED <<session, nextHandle, captures, hasHandler, handlerCalls,
                 console, providerErrors, elapsed,
                 stopCalled, lastSuccess, lastRead>>

Next ==
  \/ Render
  \/ StartRecording
  \/ StopRecording
  \/ Tick
  \/ \E c \in DOMAIN captures, files \in Files : ProviderSuccess(c, files)
  \/ \E c \in DOMAIN captures : ReadDone(c)
  \/ \E c \in DOMAIN captures : FetchRejected(c)
  \/ \E c \in DOMAIN captures, err \in Errors : ProviderFailure(c, err)
  \/ Unmount

Spec == Init /\ [][Next]_vars

\* the state is rendered: no setState call is waiting for a render
Rendered == pending = <<>>

\* The runs in which React has rendered before each call of start() and
\* stop(): every call is made through the callbacks of the current state.
NextRendered ==
  \/ Render
  \/ Rendered /\ StartRecording
  \/ Rendered /\ StopRecording
  \/ Tick
  \/ \E c \in DOMAIN captures, files \in Files : ProviderSuccess(c, files)
  \/ \E c \in DOMAIN captures : ReadDone(c)
  \/ \E c \in DOMAIN captures : FetchRejected(c)
  \/ \E c \in DOMAIN captures, err \in Errors : ProviderFailure(c, err)
  \/ Unmount

SpecRendered == Init /\ [][NextRendered]_vars

(***************************************************************************)
(* Claims                                                                  *)
(***************************************************************************)

\* C1: in every reachable state at most one interval timer is live.
C1_AtMostOneTimer == Cardinality(timers) <= 1

\* C2: a start() called while a recording started by an earlier start() is
\* still in progress (no stop(), no provider success since) has no effect:
\* no new capture, no new timer, no state update.
C2_SecondStartNoEffect ==
  [][(elapsed # NotRecording /\ StartRecording)
       => UNCHANGED <<captures, timers, nextHandle, pending>>]_vars

\* C3: once the success callback has run no interval timer is live, so no
\* tick increments recordingTime any more.
C3_SuccessStopsTimer ==
  [][(\E c \in DOMAIN captures, files \in Files : ProviderSuccess(c, files))
       => timers' = {}]_vars

\* C4: once stop() has returned no interval timer is live.
C4_StopClearsTimer == [][StopRecording => timers' = {}]_vars

\* C5: the state rendered after a start() that was called while isRecording
\* is false has isRecording = true and recordingTime = 0.
C5_StartResets ==
  [][(~isRecording /\ StartRecording)
       => (RenderedState(pending').isRecording
           /\ RenderedState(pending').recordingTime = 0)]_vars

\* C6: k seconds into a recording that no stop() or provider success has
\* interrupted, recordingTime = k.
C6_OnePerSecond ==
  (mounted /\ Rendered /\ isRecording /\ elapsed # NotRecording)
    => recordingTime = elapsed

\* C7 (as stated): recordingBlob is undefined in every state where
\* isRecording is true.
C7_UndefinedWhileRecording == isRecording => recordingBlob = Undefined

\* C7 (amended): recordingBlob is undefined in every state where isRecording
\* is true and no capture's file read has completed.
C7_UndefinedUntilFirstRead ==
  (isRecording /\ \A c \in DOMAIN captures : captures[c].state # "done")
    => recordingBlob = Undefined

\* a recording is in progress while an earlier capture has succeeded and its
\* file is still being read
C7_Witness ==
  /\ isRecording /\ Rendered
  /\ \E c \in DOMAIN captures : captures[c].state = "reading"
  /\ recordingBlob = Undefined

\* C8: after the owning component has unmounted no interval timer is live.
C8_UnmountClearsTimer == ~mounted => timers = {}

C10_FailureLeavesState ==
  [][(\E c \in DOMAIN captures, err \in Errors : ProviderFailure(c, err))
       => UNCHANGED <<isRecording, recordingTime, timerInterval,
                      recordingBlob, pending, timers>>]_vars

\* a capture has failed, one second into the recording it belongs to: the
\* recording state stands and the timer is live
C10_Witness ==
  /\ mounted /\ Rendered /\ Len(captures) = 1 /\ captures[1].state = "failed"
  /\ isRecording /\ recordingTime = 1 /\ timers = {timerInterval}

C12_BlobIsFirstFile ==
  [][\A c \in DOMAIN captures :
       /\ \A files \in Files :
            (captures[c].state = "inflight" /\ captures' # captures
             /\ ProviderSuccess(c, files)) => captures'[c].file = Head(files)
       /\ (mounted /\ captures[c].state = "reading" /\ ReadDone(c))
            => (/\ RenderedState(pending').recordingBlob.type = "audio/wav"
                /\ RenderedState(pending').recordingBlob.bytes
                     = captures[c].file)]_vars

\* the blob of a file that holds the byte 255 is stored
C12_Witness ==
  /\ Rendered /\ recordingBlob.type = "audio/wav"
  /\ recordingBlob.bytes = <<255, 0>>

\* C15: in every state where isRecording is false recordingTime is 0.
C15_ZeroWhenIdle == ~isRecording => recordingTime = 0

\* the blob updates among the queued updates q
BlobUpdates(q) == SelectSeq(q, LAMBDA u : u.k = "blob")

\* C16: recordingBlob changes only in a render that applies a queued blob
\* update, and only reader.onloadend queues a blob update.
C16_BlobOnlyFromRead ==
  [][/\ recordingBlob' # recordingBlob
          => (Render /\ BlobUpdates(pending) # <<>>)
     /\ Len(BlobUpdates(pending')) > Len(BlobUpdates(pending))
          => \E c \in DOMAIN captures : ReadDone(c)]_vars

\* a stored blob has survived a stop() and a start() and a tick of the next
\* recording
C16_Witness ==
  /\ Rendered /\ isRecording /\ recordingTime > 0
  /\ recordingBlob # Undefined /\ Len(captures) = 2

\* C17: in the rendered state, and in the state the queued updates lead to,
\* isRecording is true exactly when timerInterval is defined.
C17_RecordingIffTimer ==
  /\ isRecording <=> timerInterval # None
  /\ RenderedState(pending).isRecording
       <=> RenderedState(pending).timerInterval # None

\* a provider success has been rendered: both are reset while its interval
\* is still live
C17_Witness ==
  /\ Rendered /\ ~isRecording /\ timerInterval = None /\ timers # {}
  /\ \E c \in DOMAIN captures : captures[c].state = "reading"

\* C13: recordingBlob is defined only after stopRecording has been called.
C13_BlobOnlyAfterStop == recordingBlob # Undefined => stopCalled # "never"

\* every capture has ended: its error callback ran, or its read ended
AllCapturesEnded ==
  \A c \in DOMAIN captures : captures[c].state \in {"failed", "done", "readFailed"}

\* C14: once stopRecording has been called during a recording and every
\* capture has ended, so that nothing is left that could store a blob, the
\* audio is present in recordingBlob.
C14_StopYieldsBlob ==
  (mounted /\ Rendered /\ stopCalled = "recording" /\ AllCapturesEnded)
    => recordingBlob # Undefined

\* C18 (as stated): after two captures, a stop() during a recording, and
\* both reads completed, recordingBlob is the blob of the file handed to the
\* success callback that ran last.
C18_LastSuccessWins ==
  (/\ mounted /\ Rendered /\ stopCalled = "recording" /\ Len(captures) = 2
   /\ \A c \in DOMAIN captures : captures[c].state = "done")
    => recordingBlob = MakeBlob(lastSuccess[1])

\* C18 (amended): once a read has completed, the rendered recordingBlob is the
\* blob of the file whose read completed last.
C18_LastReadWins ==
  (mounted /\ Rendered /\ lastRead # <<>>)
    => recordingBlob = MakeBlob(lastRead[1])

\* two captures were in flight around a stop(), and the read of the capture
\* whose success callback ran first completed last
C18_Witness ==
  /\ mounted /\ Rendered /\ stopCalled = "recording" /\ Len(captures) = 2
  /\ \A c \in DOMAIN captures : captures[c].state = "done"
  /\ lastRead # lastSuccess
  /\ recordingBlob = MakeBlob(lastRead[1])

====
